---- MODULE Spec2Model ----
(***************************************************************************)
(* CleanFoam Pro (src/app.py): the worker ledger kept in the session       *)
(* state, the fee rule compute_fee, the Add / Reset / Edit / Delete        *)
(* handlers and the financial summary.                                     *)
(*                                                                         *)
(* Money is an integer number of hundredths (the widgets' "%.2f"): 100.00  *)
(* is 10000.  Every amount that is entered is a multiple of 50 (the        *)
(* widgets' step of 0.5), so that total / 2 is exact.                      *)
(*                                                                         *)
(* A table cell that holds the empty string "" is Blank == << >>; a cell   *)
(* that holds the number n is <<n>>.  The optional argument custom_due of  *)
(* compute_fee is None == << >> or <<n>>.                                  *)
(***************************************************************************)
EXTENDS Integers, Sequences, FiniteSets, TLC

VARIABLES workers,      \* st.session_state.workers: the list of rows
          action_id,    \* st.session_state.action_id
          show_edit,    \* st.session_state["show_edit"]: "absent", "True", "False"
          show_delete,  \* st.session_state["show_delete"]: "absent", "True", "False"
          outcome,      \* what the last script run reported: the feedback shown, or the
                        \* dialog button that was submitted ("" when neither)
          fee_total,    \* compute_fee called on its own: argument total_value
          fee_custom,   \*   argument custom_due
          fee_result    \*   the value returned (<< >> before the call)

vars == <<workers, action_id, show_edit, show_delete, outcome,
          fee_total, fee_custom, fee_result>>

ledger == <<workers, action_id, show_edit, show_delete, outcome>>
feeCall == <<fee_total, fee_custom, fee_result>>

----------------------------------------------------------------------------
(* Bounds *)

MaxWorkers == 2
MaxFeeTotal == 120

IDs == 1..MaxWorkers
Names == {"", "a"}
Notes == {""}
EntryTypes == {"Standard", "CF"}
AddTotals == {0, 10000}
AddWithdrawn == {0, 1000}
AddCustomDue == {0, 5000}
EditTotals == {-500, 10000}
EditWithdrawn == {1000}
FeeTotals == {50 * k : k \in (-2 * MaxFeeTotal)..(2 * MaxFeeTotal)}
FeeCustoms == {<< >>, <<0>>, <<50>>, <<2500>>}

----------------------------------------------------------------------------
(* Values *)

Blank == << >>
None == << >>
NoId == 0

Num(n) == <<n>>

\* Mutant: float("") taken to give a number instead of raising.
FloatNeverRaises(v) == FALSE

\* float(v) on a cell: raises ValueError on "".
FloatRaises(v) == v = Blank

\* pd.to_numeric(col, errors='coerce').fillna(0) on one cell.
ToNumeric(v) == IF v = Blank THEN 0 ELSE v[1]

\* int(total_value): truncation towards zero.
IntPart(t) == IF t >= 0 THEN t \div 100 ELSE -((-t) \div 100)

Half(t) == t \div 2

----------------------------------------------------------------------------
(* compute_fee *)

Rules == [t \in {8000, 9000, 9500, 10000, 10500, 11000} |->
            CASE t = 8000 -> 2000
              [] t = 9000 -> 2000
              [] t = 9500 -> 2250
              [] t = 10000 -> 2500
              [] t = 10500 -> 2750
              [] t = 11000 -> 2500]

\* Mutant: the table consulted before the override.
compute_fee_TableFirst(total_value, custom_due) ==
    IF total_value \in DOMAIN Rules THEN Rules[total_value]
    ELSE IF custom_due # None /\ custom_due[1] > 0 THEN custom_due[1]
    ELSE IF IntPart(total_value) % 10 = 5 THEN 3250
    ELSE 3000

\* Mutant: the table without its 95 -> 22.5 rule.
compute_fee_No95(total_value, custom_due) ==
    IF custom_due # None /\ custom_due[1] > 0 THEN custom_due[1]
    ELSE IF total_value \in DOMAIN Rules \ {9500} THEN Rules[total_value]
    ELSE IF IntPart(total_value) % 10 = 5 THEN 3250
    ELSE 3000

compute_fee(total_value, custom_due) ==
    IF custom_due # None /\ custom_due[1] > 0 THEN custom_due[1]
    ELSE IF total_value \in DOMAIN Rules THEN Rules[total_value]
    ELSE IF IntPart(total_value) % 10 = 5 THEN 3250
    ELSE 3000

----------------------------------------------------------------------------
(* Rows *)

create_worker_row(worker_id, name, total, due, withdrawn, remaining, note, entry_type) ==
    [ID |-> worker_id, Worker |-> name, Total |-> total, Due |-> due,
     Withdrawn |-> withdrawn, Remaining |-> remaining, Note |-> note,
     EntryType |-> entry_type]

WorkerIds(ws) == {ws[i].ID : i \in 1..Len(ws)}

\* Mutant: the name is not validated.
AddErrorNoNameCheck(name, total_value, entry_type) ==
    IF total_value <= 0 /\ entry_type = "Standard"
    THEN "Total value must be greater than 0."
    ELSE ""

\* The add handler's validation: the outcome of the branch taken, "" when
\* the entry is accepted.
AddError(name, total_value, entry_type) ==
    IF name = "" THEN "Worker name is required."
    ELSE IF total_value <= 0 /\ entry_type = "Standard"
         THEN "Total value must be greater than 0."
    ELSE ""

\* Mutant: the withdrawn amount is not subtracted from the remaining balance.
NewWorkerIgnoresWithdrawn(wid, name, total_value, withdrawn_val, entry_type, due_custom_val, note_text) ==
    IF entry_type = "CF"
    THEN create_worker_row(wid, name, total_value, Blank, Blank, Blank, note_text, "CF")
    ELSE LET fee == compute_fee(total_value,
                                IF due_custom_val > 0 THEN Num(due_custom_val) ELSE None)
             remaining == Half(total_value) - fee
         IN create_worker_row(wid, name, total_value, Num(fee), Num(withdrawn_val),
                              Num(remaining), note_text, "Standard")

\* The row the add handler builds.
NewWorker(wid, name, total_value, withdrawn_val, entry_type, due_custom_val, note_text) ==
    IF entry_type = "CF"
    THEN create_worker_row(wid, name, total_value, Blank, Blank, Blank, note_text, "CF")
    ELSE LET fee == compute_fee(total_value,
                                IF due_custom_val > 0 THEN Num(due_custom_val) ELSE None)
             remaining == Half(total_value) - withdrawn_val - fee
         IN create_worker_row(wid, name, total_value, Num(fee), Num(withdrawn_val),
                              Num(remaining), note_text, "Standard")

\* Mutant: the edit stores the fields and the fee but leaves Remaining as it was.
EditedWorkerStaleRemaining(worker, name, total, withdrawn, note) ==
    LET w1 == [worker EXCEPT !.Worker = name, !.Total = total,
                             !.Withdrawn = Num(withdrawn), !.Note = note]
    IN IF worker.EntryType = "Standard"
       THEN [w1 EXCEPT !.Due = Num(compute_fee(total, None))]
       ELSE w1

\* Mutant: the edit keeps the fee the entry had and recomputes only Remaining.
EditedWorkerKeepsDue(worker, name, total, withdrawn, note) ==
    LET w1 == [worker EXCEPT !.Worker = name, !.Total = total,
                             !.Withdrawn = Num(withdrawn), !.Note = note]
    IN IF worker.EntryType = "Standard"
       THEN [w1 EXCEPT !.Remaining = Num(Half(total) - withdrawn - worker.Due[1])]
       ELSE w1

\* The row the edit handler leaves when Save Changes is pressed.
EditedWorker(worker, name, total, withdrawn, note) ==
    LET w1 == [worker EXCEPT !.Worker = name, !.Total = total,
                             !.Withdrawn = Num(withdrawn), !.Note = note]
    IN IF worker.EntryType = "Standard"
       THEN LET fee == compute_fee(total, None)
            IN [w1 EXCEPT !.Due = Num(fee),
                          !.Remaining = Num(Half(total) - withdrawn - fee)]
       ELSE w1

\* The index of the first row whose ID is id (0 when there is none).
FirstIndex(ws, id) ==
    IF \E i \in 1..Len(ws) : ws[i].ID = id
    THEN CHOOSE i \in 1..Len(ws) :
            ws[i].ID = id /\ \A j \in 1..(i - 1) : ws[j].ID # id
    ELSE 0

\* The list after the edit handler's loop: the first row with the ID is
\* rewritten, and the loop breaks.
SaveRows(ws, id, name, total, withdrawn, note) ==
    LET k == FirstIndex(ws, id)
    IN IF k = 0 THEN ws
       ELSE [ws EXCEPT ![k] = EditedWorker(ws[k], name, total, withdrawn, note)]

\* Mutant: the rows are filtered by the worker's name instead of the ID.
DeleteRowsByName(ws, id) ==
    LET k == FirstIndex(ws, id)
        Keep(w) == k = 0 \/ w.Worker # ws[k].Worker
    IN SelectSeq(ws, Keep)

\* The list the delete handler keeps.
DeleteRows(ws, id) ==
    LET Keep(w) == w.ID # id IN SelectSeq(ws, Keep)

\* The selectbox of the next script run: action_id becomes the ID of the
\* selected row, the first option when the options changed; with no rows
\* the main content returns early and action_id is kept.
Reselect(ws, cur) == IF ws = << >> THEN cur ELSE ws[1].ID

----------------------------------------------------------------------------
(* Financial summary *)

\* Series.sum()
RECURSIVE SumSeq(_)
SumSeq(xs) == IF xs = << >> THEN 0 ELSE Head(xs) + SumSeq(Tail(xs))

\* df_internal[col] after pd.to_numeric(..., errors='coerce').fillna(0); the
\* Total cells always hold numbers.
NumericColumn(ws, col) ==
    [i \in 1..Len(ws) |-> IF col = "Total" THEN ws[i].Total ELSE ToNumeric(ws[i][col])]

\* Mutant: only the remaining balances are taken off the business's share.
SummaryKeepsWithdrawn(ws) ==
    LET total_sum == SumSeq(NumericColumn(ws, "Total"))
        withdrawn_sum == SumSeq(NumericColumn(ws, "Withdrawn"))
        remaining_sum == SumSeq(NumericColumn(ws, "Remaining"))
        for_workers == withdrawn_sum + remaining_sum
        for_cleanfoam == total_sum - remaining_sum
    IN [total |-> total_sum, for_workers |-> for_workers,
        for_cleanfoam |-> for_cleanfoam]

Summary(ws) ==
    LET total_sum == SumSeq(NumericColumn(ws, "Total"))
        withdrawn_sum == SumSeq(NumericColumn(ws, "Withdrawn"))
        remaining_sum == SumSeq(NumericColumn(ws, "Remaining"))
        for_workers == withdrawn_sum + remaining_sum
        for_cleanfoam == total_sum - for_workers
    IN [total |-> total_sum, for_workers |-> for_workers,
        for_cleanfoam |-> for_cleanfoam]

----------------------------------------------------------------------------
(* Dialog state.  st.dialog is taken to show a modal dialog: while one is  *)
(* open the operator submits or dismisses it before anything else.        *)

WorkerFound == \E i \in 1..Len(workers) : workers[i].ID = action_id

ActionWorker == workers[FirstIndex(workers, action_id)]

\* handle_edit_dialog gets past its two guards.
EditPending == show_edit = "True" /\ WorkerFound

\* Building the form raises: float("") on the Withdrawn cell of a CF row.
EditRaises == EditPending /\ FloatRaises(ActionWorker.Withdrawn)

EditDialogOpen == EditPending /\ ~EditRaises

\* handle_delete_dialog is reached only when handle_edit_dialog returned.
DeleteDialogOpen == show_delete = "True" /\ WorkerFound /\ ~EditPending

Idle == ~EditDialogOpen /\ ~DeleteDialogOpen

----------------------------------------------------------------------------
(* Handlers *)

Init ==
    /\ workers = << >>
    /\ action_id = NoId
    /\ show_edit = "absent"
    /\ show_delete = "absent"
    /\ outcome = ""
    /\ fee_total = 0
    /\ fee_custom = None
    /\ fee_result = << >>

\* "Add Worker".  uuid.uuid4().hex[:8] is taken to give an ID that no row of
\* the collection has; the collection is capped at MaxWorkers rows.
Add(name, total_value, withdrawn_val, entry_type, due_custom_val, note_text) ==
    /\ Idle
    /\ IF AddError(name, total_value, entry_type) # ""
       THEN /\ outcome' = AddError(name, total_value, entry_type)
            /\ UNCHANGED <<workers, action_id>>
       ELSE /\ Len(workers) < MaxWorkers
            /\ \E wid \in IDs \ WorkerIds(workers) :
                  workers' = Append(workers,
                                    NewWorker(wid, name, total_value, withdrawn_val,
                                              entry_type, due_custom_val, note_text))
            /\ outcome' = "Added successfully!"
            /\ action_id' = Reselect(workers', action_id)
    /\ UNCHANGED <<show_edit, show_delete, feeCall>>

\* "Reset All Workers"
Reset ==
    /\ Idle
    /\ IF workers # << >>
       THEN /\ workers' = << >>
            /\ outcome' = "All workers have been cleared."
       ELSE /\ outcome' = "The list is already empty."
            /\ UNCHANGED workers
    /\ UNCHANGED <<action_id, show_edit, show_delete, feeCall>>

\* The selectbox of the Actions expander.
Select(id) ==
    /\ Idle
    /\ id \in WorkerIds(workers)
    /\ action_id' = id
    /\ outcome' = ""
    /\ UNCHANGED <<workers, show_edit, show_delete, feeCall>>

\* "Edit Worker"
ClickEdit ==
    /\ Idle
    /\ workers # << >>
    /\ show_edit' = "True"
    /\ outcome' = ""
    /\ UNCHANGED <<workers, action_id, show_delete, feeCall>>

\* "Delete Worker"
ClickDelete ==
    /\ Idle
    /\ workers # << >>
    /\ show_delete' = "True"
    /\ outcome' = ""
    /\ UNCHANGED <<workers, action_id, show_edit, feeCall>>

\* "Save Changes"
SaveChanges(name, total, withdrawn, note) ==
    /\ EditDialogOpen
    /\ workers' = SaveRows(workers, action_id, name, total, withdrawn, note)
    /\ show_edit' = "False"
    /\ action_id' = Reselect(workers', action_id)
    /\ outcome' = "Save Changes"
    /\ UNCHANGED <<show_delete, feeCall>>

\* The edit dialog shown and not submitted.
DismissEdit ==
    /\ EditDialogOpen
    /\ show_edit' = "absent"
    /\ outcome' = ""
    /\ UNCHANGED <<workers, action_id, show_delete, feeCall>>

\* "Yes, Delete"
ConfirmDelete ==
    /\ DeleteDialogOpen
    /\ workers' = DeleteRows(workers, action_id)
    /\ show_delete' = "False"
    /\ action_id' = Reselect(workers', action_id)
    /\ outcome' = "Yes, Delete"
    /\ UNCHANGED <<show_edit, feeCall>>

\* "Cancel"
CancelDelete ==
    /\ DeleteDialogOpen
    /\ show_delete' = "False"
    /\ outcome' = ""
    /\ UNCHANGED <<workers, action_id, show_edit, feeCall>>

\* The delete dialog shown and neither button pressed.
DismissDelete ==
    /\ DeleteDialogOpen
    /\ show_delete' = "absent"
    /\ outcome' = ""
    /\ UNCHANGED <<workers, action_id, show_edit, feeCall>>

AddAny ==
    \E name \in Names, total_value \in AddTotals, withdrawn_val \in AddWithdrawn,
       entry_type \in EntryTypes, due_custom_val \in AddCustomDue, note_text \in Notes :
        Add(name, total_value, withdrawn_val, entry_type, due_custom_val, note_text)

SelectAny == \E id \in IDs : Select(id)

SaveAny ==
    \E name \in Names, total \in EditTotals, withdrawn \in EditWithdrawn, note \in Notes :
        SaveChanges(name, total, withdrawn, note)

Next ==
    \/ AddAny
    \/ Reset
    \/ SelectAny
    \/ ClickEdit
    \/ ClickDelete
    \/ SaveAny
    \/ DismissEdit
    \/ ConfirmDelete
    \/ CancelDelete
    \/ DismissDelete

Spec == Init /\ [][Next]_vars

----------------------------------------------------------------------------
(* compute_fee called on its own *)

FeeInit ==
    /\ workers = << >>
    /\ action_id = NoId
    /\ show_edit = "absent"
    /\ show_delete = "absent"
    /\ outcome = ""
    /\ fee_total \in FeeTotals
    /\ fee_custom \in FeeCustoms
    /\ fee_result = << >>

CallComputeFee ==
    /\ fee_result = << >>
    /\ fee_result' = <<compute_fee(fee_total, fee_custom)>>
    /\ UNCHANGED <<fee_total, fee_custom, ledger>>

FeeNext == CallComputeFee

FeeSpec == FeeInit /\ [][FeeNext]_vars

----------------------------------------------------------------------------
(* Properties of the ledger *)

Rows == {workers[i] : i \in 1..Len(workers)}
StandardRows == {w \in Rows : w.EntryType = "Standard"}
CFRows == {w \in Rows : w.EntryType = "CF"}

IsNumber(v) == v # Blank
ZeroOrAbsent(v) == v = Blank \/ v = <<0>>

\* C1: every Standard entry of the collection satisfies
\* remaining = total/2 - withdrawn - due (stated doubled, so that no
\* division is involved).
C1_StandardRemaining ==
    \A w \in StandardRows :
        /\ IsNumber(w.Due) /\ IsNumber(w.Withdrawn) /\ IsNumber(w.Remaining)
        /\ 2 * w.Remaining[1] = w.Total - 2 * w.Withdrawn[1] - 2 * w.Due[1]

\* A Standard entry whose total and withdrawn were set by a saved edit (the
\* add form accepts no negative total).
C1_Witness ==
    \E w \in StandardRows : w.Total = -500 /\ w.Withdrawn = <<1000>>

\* C2: every CF entry of the collection has due, withdrawn and remaining
\* zero or absent, whatever was added, edited, deleted or reset.
C2_CFBlank ==
    \A w \in CFRows :
        ZeroOrAbsent(w.Due) /\ ZeroOrAbsent(w.Withdrawn) /\ ZeroOrAbsent(w.Remaining)

\* The edit dialog was asked for on a CF entry (building its form raises).
C2_Witness == EditRaises /\ ActionWorker.EntryType = "CF"

\* C3 as claimed: an Add with an empty name or a total <= 0, of either
\* entry type, leaves the collection unchanged.
C3_RejectsEitherType ==
    [][\A name \in Names, total_value \in AddTotals, withdrawn_val \in AddWithdrawn,
          entry_type \in EntryTypes, due_custom_val \in AddCustomDue,
          note_text \in Notes :
          ((name = "" \/ total_value <= 0)
            /\ Add(name, total_value, withdrawn_val, entry_type, due_custom_val, note_text))
          => workers' = workers]_vars

\* C3 as amended: an Add with an empty name (either entry type), or with a
\* total <= 0 on a Standard entry, leaves the collection unchanged and shows
\* an error.  Stated by contraposition: a step that changes the collection
\* or shows no error is no such Add.
C3_RejectsInvalid ==
    [][(workers' # workers
         \/ outcome' \notin {"Worker name is required.",
                             "Total value must be greater than 0."})
       => \A name \in Names, total_value \in AddTotals, withdrawn_val \in AddWithdrawn,
             entry_type \in EntryTypes, due_custom_val \in AddCustomDue,
             note_text \in Notes :
             (name = "" \/ (total_value <= 0 /\ entry_type = "Standard"))
             => ~Add(name, total_value, withdrawn_val, entry_type, due_custom_val,
                     note_text)]_vars

\* An Add was rejected while the collection held entries.
C3_Witness ==
    /\ outcome \in {"Worker name is required.", "Total value must be greater than 0."}
    /\ workers # << >>

\* C4 as claimed: every entry of the collection has a non-empty name and a
\* non-negative total.
C4_NameAndTotalValid ==
    \A w \in Rows : w.Worker # "" /\ w.Total >= 0

\* C7: Save Changes on a Standard entry leaves due = compute_fee(total', no
\* override) and remaining = total'/2 - withdrawn' - due, whatever the due
\* was before; on a CF entry it leaves due and remaining unpopulated.
C7_SaveRecomputes ==
    [][\A name \in Names, total \in EditTotals, withdrawn \in EditWithdrawn,
          note \in Notes :
          SaveChanges(name, total, withdrawn, note)
          => LET k == FirstIndex(workers, action_id)
             IN /\ k # 0
                /\ Len(workers') = Len(workers)
                /\ workers'[k].Total = total
                /\ workers'[k].Withdrawn = <<withdrawn>>
                /\ IF workers[k].EntryType = "Standard"
                   THEN /\ workers'[k].Due = <<compute_fee(total, None)>>
                        /\ IsNumber(workers'[k].Remaining)
                        /\ 2 * workers'[k].Remaining[1]
                             = total - 2 * withdrawn - 2 * compute_fee(total, None)
                   ELSE /\ workers'[k].Due = Blank
                        /\ workers'[k].Remaining = Blank]_vars

\* Save Changes has just run and left a Standard entry with the total -5.00,
\* whose fee 32.50 is not the fee (25.00 or the override 50.00) it was
\* added with.
C7_Witness ==
    /\ outcome = "Save Changes"
    /\ \E w \in StandardRows : w.Total = -500 /\ w.Due = <<3250>>

RECURSIVE SumOver(_)
SumOver(xs) == IF xs = << >> THEN 0 ELSE Head(xs) + SumOver(Tail(xs))

AsZero(v) == IF v = Blank THEN 0 ELSE v[1]

\* C9: for every collection the summary satisfies
\* for_workers + for_business = total, with total the sum of all the
\* entries' total and for_workers = sum(withdrawn) + sum(remaining), an
\* absent value counting as zero.
C9_SummaryAddsUp ==
    LET S == Summary(workers)
        totals == [i \in 1..Len(workers) |-> workers[i].Total]
        paid == [i \in 1..Len(workers) |->
                    AsZero(workers[i].Withdrawn) + AsZero(workers[i].Remaining)]
    IN /\ S.total = SumOver(totals)
       /\ S.for_workers = SumOver(paid)
       /\ S.for_workers + S.for_cleanfoam = S.total

\* A collection that mixes a Standard entry with a CF entry of non-zero total.
C9_Witness ==
    /\ \E w \in StandardRows : w.Withdrawn = <<1000>>
    /\ \E w \in CFRows : w.Total > 0

\* C10: For Workers is the sum over the Standard entries of (total/2 - due),
\* For CleanFoam the sum over the Standard entries of (total/2 + due) plus
\* the CF entries' totals (stated doubled); no withdrawn amount appears.
C10_SplitIndependentOfWithdrawn ==
    LET S == Summary(workers)
        IsStd(i) == workers[i].EntryType = "Standard"
        toWorkers2 == [i \in 1..Len(workers) |->
                         IF IsStd(i) THEN workers[i].Total - 2 * AsZero(workers[i].Due)
                         ELSE 0]
        toBusiness2 == [i \in 1..Len(workers) |->
                          IF IsStd(i) THEN workers[i].Total + 2 * AsZero(workers[i].Due)
                          ELSE 2 * workers[i].Total]
    IN /\ 2 * S.for_workers = SumOver(toWorkers2)
       /\ 2 * S.for_cleanfoam = SumOver(toBusiness2)

\* An edited Standard entry with a non-zero withdrawn amount beside a CF entry.
C10_Witness ==
    /\ \E w \in StandardRows : w.Total = -500 /\ w.Withdrawn = <<1000>>
    /\ \E w \in CFRows : w.Total > 0

----------------------------------------------------------------------------
(* Properties of compute_fee *)

FeeReturned == fee_result # << >>
NoOverride == fee_custom = None \/ fee_custom[1] = 0

\* C5: compute_fee(t, override) returns override whenever override is
\* present and > 0, for every total t.
C5_OverrideWins ==
    (FeeReturned /\ fee_custom # None /\ fee_custom[1] > 0)
        => fee_result[1] = fee_custom[1]

\* compute_fee has returned for a total of the table and an override > 0.
C5_Witness ==
    FeeReturned /\ fee_total = 10000 /\ fee_custom = <<50>>

\* The last digit of the integer part of t.
LastDigit(t) == (IF t >= 0 THEN t \div 100 ELSE (-t) \div 100) % 10

TableFee(t) ==
    CASE t = 8000 -> 2000
      [] t = 9000 -> 2000
      [] t = 9500 -> 2250
      [] t = 10000 -> 2500
      [] t = 10500 -> 2750
      [] t = 11000 -> 2500
      [] OTHER -> IF LastDigit(t) = 5 THEN 3250 ELSE 3000

\* C6: with no override compute_fee gives 80 -> 20, 90 -> 20, 95 -> 22.5,
\* 100 -> 25, 105 -> 27.5, 110 -> 25, and for any other total 32.5 when its
\* integer part ends in 5 and 30.0 otherwise.
C6_TableAndFallbacks ==
    (FeeReturned /\ NoOverride) => fee_result[1] = TableFee(fee_total)

\* compute_fee has returned 32.5 for the total 35 with no override.
C6_Witness ==
    FeeReturned /\ fee_custom = None /\ fee_total = 3500 /\ fee_result = <<3250>>

====
